---------------------------- MODULE Spec2Model ----------------------------
(***************************************************************************)
(* ZettelGenius: the note store (storageService.ts), the App controller    *)
(* (App.tsx), the debounced editor (NoteEditor.tsx) and the wiki-link      *)
(* graph build (NetworkGraph.tsx).                                         *)
(*                                                                         *)
(* Strings are sequences of one-character strings.  JavaScript indices are *)
(* 0-based; the sequences here are 1-based, so an index i of the source is *)
(* i+1 here and 0 stands for "no index" (-1 / null in the source).         *)
(***************************************************************************)
EXTENDS Integers, Sequences, FiniteSets, TLC

VARIABLES
    input,          \* the string handed to the regex loop (source.content)
    matches,        \* the matches the regex loop produced for input
    storage,        \* localStorage[STORAGE_KEY]
    now,            \* Date.now()
    nextId,         \* the next value crypto.randomUUID() returns
    notes,          \* App: useState notes
    activeNoteId,   \* App: useState activeNoteId (0 is null)
    viewMode,       \* App: useState viewMode
    dirty,          \* App has a state update that is not rendered yet
    editor,         \* the mounted NoteEditor instance (state, refs, props)
    zombies,        \* unmounted NoteEditor instances that still have callbacks
    graphMounted,   \* NetworkGraph is mounted
    nodes,          \* NetworkGraph effect: nodes
    links,          \* NetworkGraph effect: links
    simulation,     \* NetworkGraph effect: the simulation and the drag gesture
    lastOp          \* history: the last handler that ran

vars == <<input, matches, storage, now, nextId, notes, activeNoteId, viewMode,
          dirty, editor, zombies, graphMounted, nodes, links, simulation,
          lastOp>>

appVars == <<storage, now, nextId, notes, activeNoteId, viewMode, dirty,
             editor, zombies, graphMounted, nodes, links,
                   simulation>>

---------------------------------------------------------------------------
(* Bounds *)

MaxLen == 8         \* longest body handed to the regex loop on its own
MaxGraphNotes == 3  \* largest collection handed to the graph build on its own
MaxIds == 2         \* number of ids crypto.randomUUID() hands out
MaxAI == 1          \* AI calls in flight (or awaiting their debounce) at once
MaxContent == 5     \* longest note body the editor holds
MaxTime == 2        \* last value of Date.now() in the storage calls on their own
MaxPopupLen == 3    \* longest body the user types or inserts a suggestion into
MaxSuggestNotes == 12  \* largest collection the suggestions are taken from
MaxLayoutNotes == 2 \* largest collection drawn when the layout is studied
MaxAdds == 1        \* notes added while the layout is studied
MaxCalls == 2       \* AI calls of one editor in flight when they overlap

---------------------------------------------------------------------------
(* Characters and strings *)

NL == "\n"

Alphabet == {"[", "]", "a", NL}

\* the line terminators the regex "." does not match
LineTerminators == {NL, "\r"}

Str(n) == UNION {[1..k -> Alphabet] : k \in 0..n}

toLowerCaseChar(c) ==
    CASE c = "A" -> "a"
      [] c = "B" -> "b"
      [] c = "W" -> "w"
      [] OTHER -> c

toLowerCase(s) == [i \in DOMAIN s |-> toLowerCaseChar(s[i])]

\* the wiki-link [[t]]
Link(t) == <<"[", "[">> \o t \o <<"]", "]">>

NoteIds(ns) == {ns[k].id : k \in DOMAIN ns}

---------------------------------------------------------------------------
(* The regex /\[\[(.*?)\]\]/g and its exec loop *)

OpensAt(s, i) == i >= 1 /\ i + 1 <= Len(s) /\ s[i] = "[" /\ s[i + 1] = "["

ClosesAt(s, j) == j >= 1 /\ j + 1 <= Len(s) /\ s[j] = "]" /\ s[j + 1] = "]"

IsDotMutNewline(c) == TRUE

\* "." matches any character except a line terminator
IsDot(c) == c \notin LineTerminators

\* (.*?)\]\] from position j on: the lazy quantifier tries the closing
\* brackets first and consumes one more "." only when they do not match.
\* The result is the position of the closing brackets, 0 when there is none.
RECURSIVE Lazy(_, _)
Lazy(s, j) ==
    IF ClosesAt(s, j) THEN j
    ELSE IF j > Len(s) \/ ~IsDot(s[j]) THEN 0
    ELSE Lazy(s, j + 1)

NoMatch == [index |-> 0, end |-> 0, title |-> <<>>]

\* regex.exec(s) with regex.lastIndex = lastIndex: the first position at or
\* after lastIndex where the pattern matches
RECURSIVE exec(_, _)
exec(s, lastIndex) ==
    IF lastIndex > Len(s) THEN NoMatch
    ELSE IF OpensAt(s, lastIndex) /\ Lazy(s, lastIndex + 2) # 0
         THEN LET j == Lazy(s, lastIndex + 2)
              IN [index |-> lastIndex, end |-> j,
                  title |-> SubSeq(s, lastIndex + 2, j - 1)]
         ELSE exec(s, lastIndex + 1)

\* while ((match = regex.exec(content)) !== null): the matches in the order
\* the loop sees them; exec leaves lastIndex after the closing brackets
RECURSIVE regexLoop(_, _)
regexLoop(s, lastIndex) ==
    LET match == exec(s, lastIndex)
    IN IF match = NoMatch THEN <<>>
       ELSE <<match>> \o regexLoop(s, match.end + 2)

\* match[1] of every match
extractLinks(s) ==
    LET ms == regexLoop(s, 1) IN [k \in DOMAIN ms |-> ms[k].title]

---------------------------------------------------------------------------
(* NetworkGraph: the data the effect prepares *)

Untitled == <<"U", "n", "t", "i", "t", "l", "e", "d">>

\* notes.map(n => ({ id: n.id, title: n.title || "Untitled", ... }))
\* fx of a node that is not pinned (undefined or null)
NoPin == -1

buildNodes(ns) ==
    [k \in DOMAIN ns |->
        [id |-> ns[k].id,
         title |-> IF ns[k].title = <<>> THEN Untitled ELSE ns[k].title]]

MapSetMutFirst(m, key, val) ==
    [x \in (DOMAIN m) \cup {key} |-> IF x \in DOMAIN m THEN m[x] ELSE val]

\* Map.prototype.set: a later entry with the same key replaces the earlier
MapSet(m, key, val) ==
    [x \in (DOMAIN m) \cup {key} |-> IF x = key THEN val ELSE m[x]]

\* Map.prototype.get: 0 stands for undefined
MapGet(m, key) == IF key \in DOMAIN m THEN m[key] ELSE 0

EmptyMap == [x \in {} |-> 0]

entryKeyMutCase(n) == n.title

\* the key of a note's entry: n.title.toLowerCase()
entryKey(n) == toLowerCase(n.title)

\* new Map(notes.map(n => [n.title.toLowerCase(), n.id])): the entries are
\* set in collection order
RECURSIVE titleToId(_)
titleToId(ns) ==
    IF ns = <<>> THEN EmptyMap
    ELSE LET n == ns[Len(ns)]
         IN MapSet(titleToId(SubSeq(ns, 1, Len(ns) - 1)), entryKey(n), n.id)

\* an id is a non-empty string, so it is truthy; undefined is not
Truthy(id) == id # 0

linkGuardMutSelf(targetId, source) == Truthy(targetId)

\* if (targetId && targetId !== source.id)
linkGuard(targetId, source) == Truthy(targetId) /\ targetId # source.id

\* the while loop over the matches of one source note
RECURSIVE linksOfMatches(_, _, _)
linksOfMatches(source, ms, map) ==
    IF ms = <<>> THEN <<>>
    ELSE LET targetTitle == toLowerCase(Head(ms).title)
             targetId == MapGet(map, targetTitle)
             rest == linksOfMatches(source, Tail(ms), map)
         IN IF linkGuard(targetId, source)
            THEN <<[source |-> source.id, target |-> targetId]>> \o rest
            ELSE rest

\* notes.forEach(source => { ... links.push(...) })
RECURSIVE forEachSource(_, _)
forEachSource(ns, map) ==
    IF ns = <<>> THEN <<>>
    ELSE linksOfMatches(Head(ns), regexLoop(Head(ns).content, 1), map)
            \o forEachSource(Tail(ns), map)

buildLinks(ns) == forEachSource(ns, titleToId(ns))

\* d3.forceSimulation(nodes): a node object without x and vx is placed at
\* the point its index seeds (point i for index i) and is at rest
\* and is not pinned (fx is undefined)
forceSimulation(nds) ==
    [k \in DOMAIN nds |->
        [id |-> nds[k].id, title |-> nds[k].title, x |-> k - 1, vx |-> 0,
         fx |-> NoPin]]

\* no drag gesture is in progress
NoDrag == [id |-> 0, pointer |-> 0, detached |-> FALSE]

\* running: the timer of the simulation created last is ticking; cleanup:
\* React holds the cleanup of the last effect run; stale: the simulations
\* created before the last one whose timer is ticking; drag: the gesture in
\* progress, the id of its node object, the pointer position of its last
\* event, and whether that node object is no longer one of nodes
NoSimulation == [running |-> FALSE, cleanup |-> FALSE, stale |-> 0,
                 drag |-> NoDrag]

NoGraph == [nodes |-> <<>>, links |-> <<>>, simulation |-> NoSimulation]

\* return () => simulation.stop(): what React runs before the next run of
\* the effect and at unmount, if the last run returned it
effectCleanup(g) ==
    IF g.simulation.cleanup
    THEN [g EXCEPT !.simulation.running = FALSE, !.simulation.cleanup = FALSE]
    ELSE g

graphEffectMutStale(ns, old) == old

\* the effect body: it returns early on an empty collection and leaves what
\* was drawn before; otherwise the svg is cleared and drawn from the props
\* with new node objects and a new simulation.  A drag gesture in progress
\* keeps the node object and the simulation it started with.
graphEffect(ns, old) ==
    IF ns = <<>> THEN old
    ELSE [nodes |-> forceSimulation(buildNodes(ns)),
          links |-> buildLinks(ns),
          simulation |->
              [running |-> TRUE, cleanup |-> TRUE,
               stale |-> old.simulation.stale
                           + (IF old.simulation.running THEN 1 ELSE 0),
               drag |-> IF old.simulation.drag.id # 0
                        THEN [old.simulation.drag EXCEPT !.detached = TRUE]
                        ELSE NoDrag]]

---------------------------------------------------------------------------
(* Records *)

NoNote == [id |-> 0, title |-> <<>>, content |-> <<>>,
           createdAt |-> 0, updatedAt |-> 0]

NoRename == [id |-> 0, old |-> <<>>, new |-> <<>>]

\* name: the handler; id: the note it was about; flag: it wrote that note to
\* the store; zombie: it ran in an editor that was already unmounted;
\* rename: the title change it (or the handler before the renders and view
\* toggles that followed) made in the store; deleted: the note it removed;
\* arg: the note handed to a storage call made on its own
OpOn(name, id, flag, zombie) ==
    [name |-> name, id |-> id, flag |-> flag, zombie |-> zombie,
     rename |-> NoRename, deleted |-> NoNote, arg |-> NoNote]

Op(name) == OpOn(name, 0, FALSE, FALSE)

---------------------------------------------------------------------------
(* storageService.ts *)

\* 'Welcome'
WelcomeTitle == <<"W", "e", "l", "c", "o", "m", "e">>

\* INITIAL_NOTE_CONTENT, cut down to a heading mark and its one wiki-link,
\* [[Weltraum]] (written [[w]])
INITIAL_NOTE_CONTENT == <<"#", "[", "[", "w", "]", "]">>

\* the result of a storage call: what it returns, what it leaves in
\* localStorage and the next id crypto.randomUUID() will hand out
Ret(ret, st, nid) == [ret |-> ret, storage |-> st, nextId |-> nid]

Stored(val) == [st |-> "ok", val |-> val]

\* getNotes: nothing stored -> write and return the Welcome note; a value
\* that does not parse -> []; otherwise the parsed list
getNotes(st, nid, t) ==
    IF st.st = "absent"
    THEN LET initialNote == [id |-> nid, title |-> WelcomeTitle,
                             content |-> INITIAL_NOTE_CONTENT,
                             createdAt |-> t, updatedAt |-> t]
         IN Ret(<<initialNote>>, Stored(<<initialNote>>), nid + 1)
    ELSE IF st.st = "corrupt" THEN Ret(<<>>, st, nid)
    ELSE Ret(st.val, st, nid)

\* notes.findIndex(n => n.id === id), 0 when there is none
findIndex(ns, id) ==
    IF \E k \in DOMAIN ns : ns[k].id = id
    THEN CHOOSE k \in DOMAIN ns :
            ns[k].id = id /\ \A m \in 1..(k - 1) : ns[m].id # id
    ELSE 0

saveNoteMutIndex(st, nid, t, updatedNote) ==
    LET g == getNotes(st, nid, t)
        ns == g.ret
        index == findIndex(ns, updatedNote.id)
        newNotes == IF index >= 1
                    THEN [ns EXCEPT ![(index % Len(ns)) + 1] =
                            [updatedNote EXCEPT !.updatedAt = t]]
                    ELSE <<updatedNote>> \o ns
    IN Ret(newNotes, Stored(newNotes), g.nextId)

\* saveNote: replace the note of that id in place with updatedAt = Date.now(),
\* or put the note first when its id is not stored
saveNote(st, nid, t, updatedNote) ==
    LET g == getNotes(st, nid, t)
        ns == g.ret
        index == findIndex(ns, updatedNote.id)
        newNotes == IF index >= 1
                    THEN [ns EXCEPT ![index] =
                            [updatedNote EXCEPT !.updatedAt = t]]
                    ELSE <<updatedNote>> \o ns
    IN Ret(newNotes, Stored(newNotes), g.nextId)

filterOutMutAll(ns, id) == <<>>

filterOut(ns, id) == SelectSeq(ns, LAMBDA n : n.id # id)

deleteNoteMutKeep(st, nid, t, id) ==
    LET g == getNotes(st, nid, t)
    IN Ret(g.ret, Stored(g.ret), g.nextId)

\* deleteNote: getNotes().filter(n => n.id !== id), written back
deleteNote(st, nid, t, id) ==
    LET g == getNotes(st, nid, t)
        ns == filterOut(g.ret, id)
    IN Ret(ns, Stored(ns), g.nextId)

---------------------------------------------------------------------------
(* NoteEditor.tsx: one editor instance *)

\* useState({ isOpen: false, top: 0, left: 0, filter: '', matchIndex: -1 }),
\* without the coordinates
NoSuggestions == [isOpen |-> FALSE, filter |-> <<>>, matchIndex |-> -1]

\* selectionStart is the caret of the textarea, a position 0..length
NoEditor ==
    [mounted |-> FALSE, note |-> NoNote, content |-> <<>>, title |-> <<>>,
     isSaving |-> FALSE, aiLoading |-> FALSE, timerRef |-> "null",
     timerNote |-> NoNote, pendingNoteRef |-> <<>>, calls |-> <<>>,
     suggestions |-> NoSuggestions, selectedIndex |-> 0, selectionStart |-> 0]

\* the state of a freshly mounted editor: useState(note.content),
\* useState(note.title), both refs null, the popup closed; the caret is put
\* after the text the textarea is given
mountEditor(note) ==
    [NoEditor EXCEPT !.mounted = TRUE, !.note = note,
                     !.content = note.content, !.title = note.title,
                     !.selectionStart = Len(note.content)]

\* setContent(v) from code: React assigns textarea.value, and assigning a
\* different value moves the caret to the end of the text
setContent(e, v) ==
    [e EXCEPT !.content = v,
              !.selectionStart = IF v = e.content THEN @ ELSE Len(v)]

\* the result of code that runs inside an editor: the instance afterwards
\* and the notes it handed to onUpdate, in order
Ran(e, writes) == [editor |-> e, writes |-> writes]

\* clearTimeout(timerRef.current) leaves the id in the ref
clearTimer(e) ==
    IF e.timerRef = "null" THEN e
    ELSE [e EXCEPT !.timerRef = "cleared", !.timerNote = NoNote]

triggerUpdateMutFirst(e, updatedNote, immediate) ==
    LET e1 == [e EXCEPT !.pendingNoteRef = <<updatedNote>>]
    IN IF immediate
       THEN Ran([e1 EXCEPT !.pendingNoteRef = <<>>, !.isSaving = FALSE],
                <<updatedNote>>)
       ELSE Ran([e1 EXCEPT !.isSaving = TRUE, !.timerRef = "armed",
                           !.timerNote = IF e.timerRef = "armed"
                                         THEN e.timerNote ELSE updatedNote],
                <<>>)

\* triggerUpdate(updatedNote, immediate)
triggerUpdate(e, updatedNote, immediate) ==
    LET e1 == clearTimer([e EXCEPT !.pendingNoteRef = <<updatedNote>>])
    IN IF immediate
       THEN Ran([e1 EXCEPT !.pendingNoteRef = <<>>, !.isSaving = FALSE],
                <<updatedNote>>)
       ELSE Ran([e1 EXCEPT !.isSaving = TRUE, !.timerRef = "armed",
                           !.timerNote = updatedNote],
                <<>>)

\* the cleanup of the effect with deps [onUpdate]: it runs when the editor
\* unmounts and whenever the parent hands it a new onUpdate
cleanup(e) ==
    IF e.timerRef # "null" /\ e.pendingNoteRef # <<>>
    THEN Ran(clearTimer(e), e.pendingNoteRef)
    ELSE Ran(e, <<>>)

\* the callback of the debounce timer
timerCallback(e) ==
    Ran([e EXCEPT !.pendingNoteRef = <<>>, !.isSaving = FALSE,
                  !.timerRef = "null", !.timerNote = NoNote],
        <<e.timerNote>>)

withTitle(note, content, title) ==
    [note EXCEPT !.content = content, !.title = title]

\* String.prototype.slice(start, end) and slice(start) for 0 <= start
slice(s, start, end) ==
    SubSeq(s, start + 1, IF end < Len(s) THEN end ELSE Len(s))

sliceFrom(s, start) == SubSeq(s, start + 1, Len(s))

\* s has sub at the 0-based position i
HasAt(s, sub, i) ==
    /\ i >= 0
    /\ i + Len(sub) <= Len(s)
    /\ \A k \in 1..Len(sub) : s[i + k] = sub[k]

\* String.prototype.includes
includes(s, sub) == \E i \in 0..Len(s) : HasAt(s, sub, i)

\* String.prototype.lastIndexOf, -1 when there is none
lastIndexOf(s, sub) ==
    IF includes(s, sub)
    THEN CHOOSE i \in 0..Len(s) :
            HasAt(s, sub, i) /\ \A j \in (i + 1)..Len(s) : ~HasAt(s, sub, j)
    ELSE -1

\* handleContentChange with e.target.value and e.target.selectionStart
handleContentChange(e, newVal, selectionStart) ==
    LET r == triggerUpdate([e EXCEPT !.content = newVal,
                                    !.selectionStart = selectionStart],
                           withTitle(e.note, newVal, e.title), FALSE)
        textBefore == slice(newVal, 0, selectionStart)
        lastOpen == lastIndexOf(textBefore, <<"[", "[">>)
        textAfterOpen == sliceFrom(textBefore, lastOpen + 2)
        isOpen == /\ lastOpen # -1
                  /\ ~includes(textAfterOpen, <<"]", "]">>)
                  /\ ~includes(textAfterOpen, <<NL>>)
    IN Ran(IF isOpen
           THEN [r.editor EXCEPT
                    !.suggestions = [isOpen |-> TRUE, filter |-> textAfterOpen,
                                     matchIndex |-> lastOpen],
                    !.selectedIndex = 0]
           ELSE [r.editor EXCEPT !.suggestions.isOpen = FALSE],
           r.writes)

SuggestionCap == 10

filteredSuggestionsMutNoCap(allNotes, e) ==
    SelectSeq(allNotes,
              LAMBDA n : /\ includes(toLowerCase(n.title),
                                     toLowerCase(e.suggestions.filter))
                         /\ n.id # e.note.id)

\* filteredSuggestions of the render that has allNotes and the state of e
filteredSuggestions(allNotes, e) ==
    slice(SelectSeq(allNotes,
                    LAMBDA n : /\ includes(toLowerCase(n.title),
                                           toLowerCase(e.suggestions.filter))
                               /\ n.id # e.note.id),
          0, SuggestionCap)

\* insertSuggestion(targetNote)
insertSuggestion(e, targetNote) ==
    LET matchIndex == e.suggestions.matchIndex
        filter == e.suggestions.filter
        newContent == slice(e.content, 0, matchIndex)
                        \o Link(targetNote.title)
                        \o sliceFrom(e.content, matchIndex + 2 + Len(filter))
        r == triggerUpdate(setContent(e, newContent),
                           withTitle(e.note, newContent, e.title), FALSE)
    IN Ran([r.editor EXCEPT !.suggestions.isOpen = FALSE], r.writes)

Keys == {"ArrowDown", "ArrowUp", "Enter", "Tab", "Escape"}

\* handleKeyDown for the keys it looks at, in the render that has allNotes
handleKeyDown(allNotes, e, key) ==
    LET fs == filteredSuggestions(allNotes, e)
    IN IF ~(e.suggestions.isOpen /\ Len(fs) > 0) THEN Ran(e, <<>>)
       ELSE IF key = "ArrowDown"
       THEN Ran([e EXCEPT !.selectedIndex = (@ + 1) % Len(fs)], <<>>)
       ELSE IF key = "ArrowUp"
       THEN Ran([e EXCEPT !.selectedIndex = (@ - 1 + Len(fs)) % Len(fs)], <<>>)
       ELSE IF key \in {"Enter", "Tab"}
       THEN insertSuggestion(e, fs[e.selectedIndex + 1])
       ELSE IF key = "Escape"
       THEN Ran([e EXCEPT !.suggestions.isOpen = FALSE], <<>>)
       ELSE Ran(e, <<>>)

---------------------------------------------------------------------------
(* The regex loop on its own *)

IdleApp ==
    /\ storage = [st |-> "absent", val |-> <<>>]
    /\ now = 0
    /\ nextId = 1
    /\ notes = <<>>
    /\ activeNoteId = 0
    /\ viewMode = "EDITOR"
    /\ dirty = FALSE
    /\ editor = NoEditor
    /\ zombies = <<>>
    /\ graphMounted = FALSE
    /\ nodes = <<>>
    /\ simulation = NoSimulation
    /\ links = <<>>

InitLinks ==
    /\ input \in Str(MaxLen)
    /\ matches = <<>>
    /\ lastOp = Op("init")
    /\ IdleApp

RegexLoop ==
    /\ lastOp.name = "init"
    /\ matches' = regexLoop(input, 1)
    /\ lastOp' = Op("regexLoop")
    /\ UNCHANGED <<input, appVars>>

NextLinks == RegexLoop

SpecLinks == InitLinks /\ [][NextLinks]_vars

\* "[[", then characters with neither a newline nor "]]", then "]]"
HasClose(t) == \E p \in 1..Len(t) : ClosesAt(t, p)

Occurrence(s, i, j) ==
    /\ OpensAt(s, i)
    /\ j >= i + 2
    /\ ClosesAt(s, j)
    /\ \A p \in (i + 2)..(j - 1) : s[p] # NL
    /\ ~HasClose(SubSeq(s, i + 2, j - 1))

\* C10: the link extraction yields, left to right, exactly the titles of the
\* non-overlapping occurrences of "[[", characters with neither a newline nor
\* "]]", "]]": every match is such an occurrence and carries its title, the
\* matches are ordered and do not overlap, and an occurrence that was not
\* matched begins inside a match that begins no later (so nothing the scan
\* could have taken is skipped); a body without an occurrence yields nothing.
C10_Extraction ==
    lastOp.name = "regexLoop" =>
        /\ \A k \in DOMAIN matches :
              /\ Occurrence(input, matches[k].index, matches[k].end)
              /\ matches[k].title =
                    SubSeq(input, matches[k].index + 2, matches[k].end - 1)
        /\ \A k \in DOMAIN matches :
              k + 1 \in DOMAIN matches =>
                  matches[k].end + 2 <= matches[k + 1].index
        /\ \A i \in 1..Len(input), j \in 1..Len(input) :
              Occurrence(input, i, j) =>
                  \E k \in DOMAIN matches :
                      /\ matches[k].index <= i
                      /\ i <= matches[k].end + 1
                      /\ (matches[k].index = i => matches[k].end <= j)

\* a link, then a bracket that spans a newline and one that is unterminated
C10_Witness ==
    /\ lastOp.name = "regexLoop"
    /\ input = <<"[", "[", "a", "]", "]", "[", "[", NL>>
    /\ Len(matches) = 1
    /\ matches[1].title = <<"a">>

---------------------------------------------------------------------------
(* App.tsx and the handlers of the mounted NoteEditor *)

\* what the user types into the title input and the textarea
TitleInputs == {<<"a">>, <<"A">>}

ContentInputs == {Link(<<"a">>), Link(<<>>)}

\* what enhanceText / autoConnect return, and the text the append kinds add
AIResults == {Link(<<"a">>)}

AITexts == {<<"a">>}

AITitleInputs == {<<"a">>}

ReplaceKinds == {"enhance", "autoConnect"}

AppendKinds == {"research"}

AIKinds == ReplaceKinds \cup AppendKinds

Init ==
    /\ input = <<>>
    /\ matches = <<>>
    /\ lastOp = Op("init")
    /\ IdleApp

\* notes.find(n => n.id === activeNoteId) || notes[0]; NoNote is undefined
activeNote(ns, id) ==
    IF findIndex(ns, id) # 0 THEN ns[findIndex(ns, id)]
    ELSE IF ns # <<>> THEN ns[1]
    ELSE NoNote

\* handleUpdateNote for each note an editor handed to onUpdate (at most one):
\* storage.saveNote, and its result goes to setNotes
handleUpdateNote(st, nid, t, writes, ns) ==
    IF writes = <<>> THEN Ret(ns, st, nid)
    ELSE saveNote(st, nid, t, writes[1])

\* history: a write that changes the title of a stored note
renameBy(st, writes, prev) ==
    IF writes = <<>> \/ st.st # "ok" THEN prev
    ELSE LET k == findIndex(st.val, writes[1].id)
         IN IF k # 0 /\ st.val[k].title # writes[1].title
            THEN [id |-> writes[1].id, old |-> st.val[k].title,
                  new |-> writes[1].title]
            ELSE prev

\* an unmounted instance keeps its refs, its pending calls and the content it
\* rendered last; setState on it does nothing
zombify(e, content) ==
    [NoEditor EXCEPT !.content = content, !.timerRef = e.timerRef,
                     !.timerNote = e.timerNote, !.calls = e.calls]

Alive(z) == z.calls # <<>> \/ z.timerRef = "armed"

RemoveAt(q, k) == SubSeq(q, 1, k - 1) \o SubSeq(q, k + 1, Len(q))

RECURSIVE SumUnsettled(_)
SumUnsettled(zs) ==
    IF zs = <<>> THEN 0
    ELSE Len(Head(zs).calls)
            + (IF Head(zs).timerRef = "armed" THEN 1 ELSE 0)
            + SumUnsettled(Tail(zs))

Unsettled == Len(editor.calls) + SumUnsettled(zombies)

Ready == lastOp.name # "init" /\ ~dirty

\* useEffect(() => { ... }, []) of App
Load ==
    /\ lastOp.name = "init"
    /\ LET g == getNotes(storage, nextId, now)
       IN /\ storage' = g.storage
          /\ nextId' = g.nextId
          /\ notes' = g.ret
          /\ activeNoteId' = IF g.ret # <<>> /\ activeNoteId = 0
                             THEN g.ret[1].id ELSE activeNoteId
    /\ dirty' = TRUE
    /\ lastOp' = Op("load")
    /\ UNCHANGED <<input, matches, now, viewMode, editor, zombies,
                   graphMounted, nodes, links,
                   simulation>>

\* what the NetworkGraph effect drew and started
Graph == [nodes |-> nodes, links |-> links, simulation |-> simulation]

\* App renders with its current state and React commits the result: the
\* editor is kept (same key), mounted or unmounted, its cleanup runs, and
\* the graph effect runs while NetworkGraph is shown.  A note the cleanup
\* hands to onUpdate is saved and set as state, which asks for a new render.
Render ==
    /\ dirty
    /\ LET an == activeNote(notes, activeNoteId)
           showGraph == viewMode = "GRAPH"
           showEditor == ~showGraph /\ an # NoNote
           keep == editor.mounted /\ showEditor /\ editor.note.id = an.id
           c == IF editor.mounted THEN cleanup(editor) ELSE Ran(editor, <<>>)
           u == handleUpdateNote(storage, nextId, now, c.writes, notes)
           g == IF showGraph
                THEN graphEffect(notes, IF graphMounted
                                        THEN effectCleanup(Graph)
                                        ELSE NoGraph)
                ELSE [NoGraph EXCEPT
                        !.simulation = effectCleanup(Graph).simulation]
       IN /\ editor' = IF keep THEN [c.editor EXCEPT !.note = an]
                       ELSE IF showEditor THEN mountEditor(an)
                       ELSE NoEditor
          /\ zombies' = IF editor.mounted /\ ~keep /\ editor.calls # <<>>
                        THEN Append(zombies, zombify(c.editor, editor.content))
                        ELSE zombies
          /\ graphMounted' = showGraph
          /\ nodes' = g.nodes
          /\ links' = g.links
          /\ simulation' = g.simulation
          /\ storage' = u.storage
          /\ nextId' = u.nextId
          /\ notes' = u.ret
          /\ dirty' = (c.writes # <<>>)
          /\ lastOp' = [OpOn("render",
                             IF editor.mounted /\ ~keep THEN editor.note.id
                             ELSE 0,
                             c.writes # <<>>, FALSE)
                           EXCEPT !.rename = renameBy(storage, c.writes,
                                                      lastOp.rename),
                                  !.deleted = lastOp.deleted]
    /\ UNCHANGED <<input, matches, now, activeNoteId, viewMode>>

\* Sidebar onSelectNote
SelectNote ==
    /\ Ready
    /\ \E id \in NoteIds(notes) :
          /\ activeNoteId' = id
          /\ viewMode' = "EDITOR"
          /\ dirty' = (id # activeNoteId \/ viewMode # "EDITOR")
          /\ lastOp' = Op("select")
    /\ UNCHANGED <<input, matches, storage, now, nextId, notes, editor,
                   zombies, graphMounted, nodes, links,
                   simulation>>

\* Sidebar onToggleView
ToggleView ==
    /\ Ready
    /\ viewMode' = IF viewMode = "EDITOR" THEN "GRAPH" ELSE "EDITOR"
    /\ dirty' = TRUE
    /\ lastOp' = [Op("toggle") EXCEPT !.rename = lastOp.rename,
                                      !.deleted = lastOp.deleted]
    /\ UNCHANGED <<input, matches, storage, now, nextId, notes, activeNoteId,
                   editor, zombies, graphMounted, nodes, links,
                   simulation>>

\* NetworkGraph onNoteClick
NoteClick ==
    /\ Ready
    /\ graphMounted
    /\ \E k \in DOMAIN nodes :
          /\ activeNoteId' = nodes[k].id
          /\ lastOp' = Op("noteClick")
    /\ viewMode' = "EDITOR"
    /\ dirty' = TRUE
    /\ UNCHANGED <<input, matches, storage, now, nextId, notes, editor,
                   zombies, graphMounted, nodes, links,
                   simulation>>

\* handleCreateNote
CreateNote ==
    /\ Ready
    /\ nextId <= MaxIds
    /\ LET newNote == [id |-> nextId, title |-> <<>>, content |-> <<>>,
                       createdAt |-> now, updatedAt |-> now]
           u == saveNote(storage, nextId + 1, now, newNote)
       IN /\ storage' = u.storage
          /\ nextId' = u.nextId
          /\ notes' = u.ret
          /\ activeNoteId' = newNote.id
          /\ lastOp' = Op("create")
    /\ viewMode' = "EDITOR"
    /\ dirty' = TRUE
    /\ UNCHANGED <<input, matches, now, editor, zombies, graphMounted, nodes,
                   links, simulation>>

\* handleDelete of the editor, then handleDeleteNote with the answer the
\* user gives to window.confirm
Delete ==
    /\ Ready
    /\ editor.mounted
    /\ \E confirm \in BOOLEAN :
          LET id == editor.note.id
              u == deleteNote(storage, nextId, now, id)
          IN /\ editor' = [clearTimer(editor) EXCEPT !.pendingNoteRef = <<>>]
             /\ IF confirm
                THEN /\ storage' = u.storage
                     /\ nextId' = u.nextId
                     /\ notes' = u.ret
                     /\ activeNoteId' =
                           IF id = activeNoteId
                           THEN (IF u.ret # <<>> THEN u.ret[1].id ELSE 0)
                           ELSE activeNoteId
                     /\ dirty' = TRUE
                ELSE UNCHANGED <<storage, nextId, notes, activeNoteId, dirty>>
             /\ lastOp' = [OpOn("delete", id, confirm, FALSE)
                           EXCEPT !.deleted = IF confirm
                                              THEN notes[findIndex(notes, id)]
                                              ELSE NoNote]
    /\ UNCHANGED <<input, matches, now, viewMode, zombies, graphMounted,
                   nodes, links,
                   simulation>>

\* notes.find(n => n.title.toLowerCase() === title.toLowerCase()); NoNote
\* is undefined
targetNoteOf(ns, title) ==
    LET hits == {m \in DOMAIN ns :
                    toLowerCase(ns[m].title) = toLowerCase(title)}
    IN IF hits = {} THEN NoNote
       ELSE ns[CHOOSE m \in hits : \A o \in hits : m <= o]

\* handlePreviewClick on a rendered link, then handleWikiLink
WikiLink ==
    /\ Ready
    /\ editor.mounted
    /\ \E k \in DOMAIN extractLinks(editor.content) :
          LET title == extractLinks(editor.content)[k]
              targetNote == targetNoteOf(notes, title)
          IN /\ title # <<>>
             /\ IF targetNote # NoNote
                THEN /\ activeNoteId' = targetNote.id
                     /\ dirty' = (targetNote.id # activeNoteId)
                ELSE UNCHANGED <<activeNoteId, dirty>>
             /\ lastOp' = Op("wikiLink")
    /\ UNCHANGED <<input, matches, storage, now, nextId, notes, viewMode,
                   editor, zombies, graphMounted, nodes, links,
                   simulation>>

\* an editor handler ran and left the instance r.editor and the notes
\* r.writes for onUpdate
EditorRan(r, op) ==
    LET u == handleUpdateNote(storage, nextId, now, r.writes, notes)
    IN /\ editor' = r.editor
       /\ storage' = u.storage
       /\ nextId' = u.nextId
       /\ notes' = u.ret
       /\ dirty' = (r.writes # <<>>)
       /\ lastOp' = [op EXCEPT !.flag = (r.writes # <<>>),
                               !.rename = renameBy(storage, r.writes, NoRename)]

\* handleTitleChange
TitleChangeOf(S) ==
    /\ Ready
    /\ editor.mounted
    /\ \E newTitle \in S \ {editor.title} :
          EditorRan(triggerUpdate([editor EXCEPT !.title = newTitle],
                        withTitle(editor.note, editor.content, newTitle),
                        FALSE),
                    Op("titleChange"))
    /\ UNCHANGED <<input, matches, now, activeNoteId, viewMode, zombies,
                   graphMounted, nodes, links,
                   simulation>>

TitleChange == TitleChangeOf(TitleInputs)

\* the same handler in the sessions with AI calls, where the user types one
\* title only
TitleChangeAI == TitleChangeOf(AITitleInputs)

\* handleContentChange: the user replaces the body, the caret ends after it
ContentChange ==
    /\ Ready
    /\ editor.mounted
    /\ \E newVal \in ContentInputs \ {editor.content} :
          EditorRan(handleContentChange(editor, newVal, Len(newVal)),
                    Op("contentChange"))
    /\ UNCHANGED <<input, matches, now, activeNoteId, viewMode, zombies,
                   graphMounted, nodes, links,
                   simulation>>

\* the debounce timer of the mounted editor expires
TimerFire ==
    /\ Ready
    /\ editor.mounted
    /\ editor.timerRef = "armed"
    /\ EditorRan(timerCallback(editor),
                 OpOn("timer", editor.timerNote.id, TRUE, FALSE))
    /\ UNCHANGED <<input, matches, now, activeNoteId, viewMode, zombies,
                   graphMounted, nodes, links,
                   simulation>>

\* a call in flight keeps the closure of the render it was started in: note
\* and title.  Of note only id, createdAt and updatedAt are kept, the code
\* after the await overrides its title and content in every use.  replaces:
\* the code after the await sets the content (handleEnhance,
\* handleAutoConnect); otherwise it appends to it
Call(kind, e) ==
    [replaces |-> kind \in ReplaceKinds, title |-> e.title,
     note |-> [e.note EXCEPT !.title = <<>>, !.content = <<>>]]

\* handleResearch / handleEnhance / handleAutoConnect / ImageInput
\* handleFileChange / VoiceInput processAudio, up to the await
StartAIUpTo(max) ==
    /\ Ready
    /\ editor.mounted
    /\ Unsettled < max
    /\ \E kind \in AIKinds :
          /\ editor' =
                IF kind = "autoConnect"
                      /\ \A k \in DOMAIN notes : notes[k].id = editor.note.id
                THEN [editor EXCEPT !.aiLoading = FALSE]
                ELSE [editor EXCEPT !.aiLoading = TRUE,
                                    !.calls = Append(@, Call(kind, editor))]
          /\ lastOp' = Op("startAI")
    /\ UNCHANGED <<input, matches, storage, now, nextId, notes, activeNoteId,
                   viewMode, dirty, zombies, graphMounted, nodes, links,
                   simulation>>

StartAI == StartAIUpTo(MaxAI)

\* the same handlers in the sessions where calls of one editor overlap
StartCalls == StartAIUpTo(MaxCalls)

\* appendToNote as the closure of the call has it: the updater of setContent
\* sees the latest content, note and title are the captured ones
appendToNote(e, call, text) ==
    LET newContent == e.content \o <<NL, NL>> \o text
        r == triggerUpdate(e, withTitle(call.note, newContent, call.title),
                           TRUE)
    IN Ran(setContent(r.editor, newContent), r.writes)

respondMutApply(e, call, ok, payload, ran) ==
    LET r == IF call.replaces
             THEN triggerUpdate(setContent(e, payload),
                                withTitle(call.note, payload, call.title),
                                FALSE)
             ELSE IF ran THEN appendToNote(e, call, payload)
             ELSE Ran(e, <<>>)
    IN Ran([r.editor EXCEPT !.aiLoading = FALSE], r.writes)

\* what follows the await of a call.  ok: the service answered; payload: its
\* answer; ran: React evaluated the updater handed to setContent (it always
\* does for a mounted editor)
respond(e, call, ok, payload, ran) ==
    LET r == IF ~ok THEN Ran(e, <<>>)
             ELSE IF call.replaces
             THEN triggerUpdate(setContent(e, payload),
                                withTitle(call.note, payload, call.title),
                                FALSE)
             ELSE IF ran THEN appendToNote(e, call, payload)
             ELSE Ran(e, <<>>)
    IN Ran([r.editor EXCEPT !.aiLoading = FALSE], r.writes)

Payloads(call) == IF call.replaces THEN AIResults ELSE AITexts

Fits(e, call, payload) ==
    ~call.replaces => Len(e.content) + 2 + Len(payload) <= MaxContent

\* the answer to a call of the mounted editor arrives
AIResponse ==
    /\ Ready
    /\ editor.mounted
    /\ \E k \in DOMAIN editor.calls, ok \in BOOLEAN :
          \E payload \in Payloads(editor.calls[k]) :
             LET call == editor.calls[k]
                 r == respond([editor EXCEPT !.calls = RemoveAt(@, k)],
                              call, ok, payload, TRUE)
             IN /\ ok => Fits(editor, call, payload)
                /\ EditorRan(r, OpOn(IF ok THEN "aiResponse" ELSE "aiFailure",
                                     call.note.id, FALSE, FALSE))
    /\ UNCHANGED <<input, matches, now, activeNoteId, viewMode, zombies,
                   graphMounted, nodes, links,
                   simulation>>

\* an unmounted editor ran code and left the instance r.editor and the notes
\* r.writes for onUpdate; an instance without callbacks is forgotten
ZombieRan(z, r, op) ==
    LET u == handleUpdateNote(storage, nextId, now, r.writes, notes)
        e == zombify(r.editor, zombies[z].content)
    IN /\ zombies' = IF Alive(e) THEN [zombies EXCEPT ![z] = e]
                     ELSE RemoveAt(zombies, z)
       /\ storage' = u.storage
       /\ nextId' = u.nextId
       /\ notes' = u.ret
       /\ dirty' = (r.writes # <<>>)
       /\ lastOp' = [op EXCEPT !.flag = (r.writes # <<>>),
                               !.rename = renameBy(storage, r.writes, NoRename)]

\* the answer to a call of an unmounted editor arrives
ZombieResponse ==
    /\ Ready
    /\ \E z \in DOMAIN zombies :
          \E k \in DOMAIN zombies[z].calls, ok \in BOOLEAN, ran \in BOOLEAN :
             \E payload \in Payloads(zombies[z].calls[k]) :
                LET call == zombies[z].calls[k]
                    r == respond([zombies[z] EXCEPT !.calls = RemoveAt(@, k)],
                                 call, ok, payload, ran)
                IN /\ ok => Fits(zombies[z], call, payload)
                   /\ ZombieRan(z, r,
                                OpOn(IF ok THEN "aiResponse" ELSE "aiFailure",
                                     call.note.id, FALSE, TRUE))
    /\ UNCHANGED <<input, matches, now, activeNoteId, viewMode, editor,
                   graphMounted, nodes, links,
                   simulation>>

\* the debounce timer of an unmounted editor expires
ZombieTimerFire ==
    /\ Ready
    /\ \E z \in DOMAIN zombies :
          /\ zombies[z].timerRef = "armed"
          /\ ZombieRan(z, timerCallback(zombies[z]),
                       OpOn("timer", zombies[z].timerNote.id, TRUE, TRUE))
    /\ UNCHANGED <<input, matches, now, activeNoteId, viewMode, editor,
                   graphMounted, nodes, links,
                   simulation>>

\* a session of editing and navigation
Next ==
    \/ Load
    \/ Render
    \/ SelectNote
    \/ ToggleView
    \/ NoteClick
    \/ CreateNote
    \/ Delete
    \/ WikiLink
    \/ TitleChange
    \/ ContentChange
    \/ TimerFire

Spec == Init /\ [][Next]_vars

\* what an earlier session that created one note left in localStorage
FirstSession ==
    LET g == getNotes([st |-> "absent", val |-> <<>>], 1, 0)
        newNote == [id |-> g.nextId, title |-> <<>>, content |-> <<>>,
                    createdAt |-> 0, updatedAt |-> 0]
    IN saveNote(g.storage, g.nextId + 1, 0, newNote)

\* App opened on the store of that earlier session
InitAI ==
    /\ input = <<>>
    /\ matches = <<>>
    /\ lastOp = Op("init")
    /\ storage = FirstSession.storage
    /\ now = 0
    /\ nextId = FirstSession.nextId
    /\ notes = <<>>
    /\ activeNoteId = 0
    /\ viewMode = "EDITOR"
    /\ dirty = FALSE
    /\ editor = NoEditor
    /\ zombies = <<>>
    /\ graphMounted = FALSE
    /\ nodes = <<>>
    /\ simulation = NoSimulation
    /\ links = <<>>

\* a session with AI calls in the editor
NextAI ==
    \/ Load
    \/ Render
    \/ SelectNote
    \/ TitleChangeAI
    \/ TimerFire
    \/ StartAI
    \/ AIResponse
    \/ ZombieResponse
    \/ ZombieTimerFire

SpecAI == InitAI /\ [][NextAI]_vars

---------------------------------------------------------------------------
(* The graph build on its own: NetworkGraph mounted with any collection *)

GraphTitles == {<<>>, <<"a">>, <<"A">>, <<"b">>}

GraphBodies == {<<>>, Link(<<"a">>), Link(<<"A">>), Link(<<>>),
                Link(<<"b">>) \o Link(<<"a">>)}

\* the collection whose note k has the title and the body f[k]
Collection(f) ==
    [k \in DOMAIN f |->
        [id |-> k, title |-> f[k][1], content |-> f[k][2],
         createdAt |-> 0, updatedAt |-> 0]]

InitGraph ==
    /\ input = <<>>
    /\ matches = <<>>
    /\ storage = [st |-> "absent", val |-> <<>>]
    /\ now = 0
    /\ nextId = 1
    /\ \E len \in 0..MaxGraphNotes :
          \E f \in [1..len -> GraphTitles \X GraphBodies] :
             notes = Collection(f)
    /\ activeNoteId = 0
    /\ viewMode = "GRAPH"
    /\ dirty = FALSE
    /\ editor = NoEditor
    /\ zombies = <<>>
    /\ graphMounted = TRUE
    /\ nodes = <<>>
    /\ simulation = NoSimulation
    /\ links = <<>>
    /\ lastOp = Op("init")

GraphEffect ==
    /\ lastOp.name = "init"
    /\ LET g == graphEffect(notes, Graph)
       IN /\ nodes' = g.nodes
          /\ links' = g.links
          /\ simulation' = g.simulation
    /\ lastOp' = Op("graphEffect")
    /\ UNCHANGED <<input, matches, storage, now, nextId, notes, activeNoteId,
                   viewMode, dirty, editor, zombies, graphMounted>>

NextGraph == GraphEffect

SpecGraph == InitGraph /\ [][NextGraph]_vars

LinkSet == {links[k] : k \in DOMAIN links}

Built == lastOp.name = "graphEffect"

\* the titles between the brackets of a body, read off the body directly
Tokens(s) ==
    {SubSeq(s, i + 2, j - 1) :
        <<i, j>> \in {p \in (1..Len(s)) \X (1..Len(s)) :
                        /\ Occurrence(s, p[1], p[2])
                        /\ \A r \in 1..(p[2] - 1) : ~Occurrence(s, p[1], r)
                        /\ \A q \in 1..(p[1] - 1), r \in 1..Len(s) :
                              Occurrence(s, q, r) => r + 1 < p[1]}}

SameTitle(t, u) == toLowerCase(t) = toLowerCase(u)

\* note k is the last of the collection with its title, up to case
LastWithTitle(ns, k) ==
    \A m \in DOMAIN ns : SameTitle(ns[m].title, ns[k].title) => m <= k

\* C2: every edge of the graph build joins two different notes of the
\* collection: no dangling edge and no self-edge.
C2_EdgesBetweenNotes ==
    Built =>
        \A k \in DOMAIN links :
            /\ links[k].source \in NoteIds(notes)
            /\ links[k].target \in NoteIds(notes)
            /\ links[k].source # links[k].target

\* a note that links to its own title, in a collection that has an edge
C2_Witness ==
    /\ Built
    /\ Len(notes) = 2
    /\ notes[1].title = <<"a">>
    /\ notes[1].content = Link(<<"a">>)
    /\ notes[2].content = Link(<<"A">>)
    /\ links = <<[source |-> 2, target |-> 1]>>

\* C8 as stated: a link token that equals the title of a note up to case, in
\* another note, is resolved to that note and the edge is emitted.
C8_Original ==
    Built =>
        \A n \in DOMAIN notes, s \in DOMAIN notes :
            \A t \in Tokens(notes[s].content) :
                (s # n /\ SameTitle(t, notes[n].title)) =>
                    [source |-> notes[s].id, target |-> notes[n].id] \in LinkSet

\* C8 as amended: the edge is emitted when the note is the last of the
\* collection with that title up to case.
C8_CaseInsensitive ==
    Built =>
        \A n \in DOMAIN notes, s \in DOMAIN notes :
            \A t \in Tokens(notes[s].content) :
                (s # n /\ SameTitle(t, notes[n].title)
                       /\ LastWithTitle(notes, n)) =>
                    [source |-> notes[s].id, target |-> notes[n].id] \in LinkSet

\* [[a]] against a note titled "A"
C8_Witness ==
    /\ Built
    /\ Len(notes) = 2
    /\ notes[1].title = <<"A">>
    /\ notes[2].title = <<"b">>
    /\ notes[2].content = Link(<<"a">>)
    /\ links = <<[source |-> 2, target |-> 1]>>

---------------------------------------------------------------------------
(* The graph while the user edits: claims about Spec *)

\* the graph is shown and App has nothing left to render
Synced == graphMounted /\ ~dirty

NodeIds == {nodes[k].id : k \in DOMAIN nodes}

HasToken(n, title) == \E t \in Tokens(n.content) : SameTitle(t, title)

\* the edges as the titles and bodies of a collection determine them
EdgesOf(ns) ==
    {[source |-> ns[p[1]].id, target |-> ns[p[2]].id] :
        p \in {q \in (DOMAIN ns) \X (DOMAIN ns) :
                 /\ q[1] # q[2]
                 /\ LastWithTitle(ns, q[2])
                 /\ HasToken(ns[q[1]], ns[q[2]].title)}}

\* C1: whatever the user created, edited, renamed and deleted, the edges
\* the graph shows are the edges of the current collection: s -> t is there
\* exactly when the body of s has a link that resolves to t and t is not s;
\* and that collection is the stored one.
C1_EdgesFollowNotes ==
    Synced =>
        /\ storage.st = "ok"
        /\ notes = storage.val
        /\ LinkSet = EdgesOf(notes)

\* a created note was retitled and the Welcome note relinked to it
C1_Witness ==
    /\ Synced
    /\ Len(notes) = 2
    /\ notes[1].title = <<"A">>
    /\ notes[2].title = WelcomeTitle
    /\ notes[2].content = Link(<<"a">>)
    /\ links = <<[source |-> notes[2].id, target |-> notes[1].id]>>

Renamed == lastOp.rename.id # 0 /\ lastOp.rename.id \in NoteIds(notes)

RenamedIndex == findIndex(notes, lastOp.rename.id)

EdgeTo(o, r) == [source |-> notes[o].id, target |-> notes[r].id] \in LinkSet

\* C6 as stated: after Old -> New and the rebuild, a note that links [[Old]]
\* and not [[New]] has no edge to the renamed note, and every other note
\* that links [[New]] has one.
C6_Original ==
    (Synced /\ Renamed) =>
        \A o \in DOMAIN notes \ {RenamedIndex} :
            /\ (lastOp.rename.old \in Tokens(notes[o].content)
                    /\ lastOp.rename.new \notin Tokens(notes[o].content))
                  => ~EdgeTo(o, RenamedIndex)
            /\ lastOp.rename.new \in Tokens(notes[o].content)
                  => EdgeTo(o, RenamedIndex)

\* C6 as amended: after Old -> New and the rebuild, only notes that link the
\* new title (up to case) have an edge to the renamed note, and every other
\* note that links it has one when the renamed note is the last of the
\* collection with that title.
C6_RenameConsistency ==
    (Synced /\ Renamed) =>
        \A o \in DOMAIN notes \ {RenamedIndex} :
            /\ ~HasToken(notes[o], lastOp.rename.new)
                  => ~EdgeTo(o, RenamedIndex)
            /\ (HasToken(notes[o], lastOp.rename.new)
                    /\ LastWithTitle(notes, RenamedIndex))
                  => EdgeTo(o, RenamedIndex)

\* the untitled note became "a" and the [[a]] of the other note resolves
C6_Witness ==
    /\ Synced
    /\ Renamed
    /\ lastOp.rename.old = <<>>
    /\ lastOp.rename.new = <<"a">>
    /\ \E o \in DOMAIN notes \ {RenamedIndex} :
          /\ notes[o].content = Link(<<"a">>)
          /\ EdgeTo(o, RenamedIndex)

\* C7: once a note is deleted the rebuilt graph has no node and no edge for
\* it, and one node for every note that is left.
C7_DeleteRemovesNode ==
    (Synced /\ lastOp.deleted # NoNote) =>
        /\ lastOp.deleted.id \notin NodeIds
        /\ \A k \in DOMAIN links :
              /\ links[k].source # lastOp.deleted.id
              /\ links[k].target # lastOp.deleted.id
        /\ Len(nodes) = Len(notes)

\* the note "a" was deleted and the note that links [[a]] is the one node
C7_Witness ==
    /\ Synced
    /\ lastOp.deleted.title = <<"a">>
    /\ Len(notes) = 1
    /\ notes[1].content = Link(<<"a">>)
    /\ Len(nodes) = 1
    /\ links = <<>>

\* C9 as stated: a body whose only link is [[]] gives no edge.
C9_EmptyLinkNoEdge ==
    Synced =>
        \A s \in DOMAIN notes :
            Tokens(notes[s].content) = {<<>>} =>
                \A k \in DOMAIN links : links[k].source # notes[s].id

---------------------------------------------------------------------------
(* The editor and the AI calls: claims about SpecAI *)

StoredIndex(st, id) == IF st.st = "ok" THEN findIndex(st.val, id) ELSE 0

\* C3 as stated: when an editor with an armed debounce timer is unmounted,
\* the store then holds what the editor showed: its title and its content.
C3_FlushOnSwitch ==
    [][(/\ lastOp'.name = "render"
        /\ lastOp'.id # 0
        /\ editor.timerRef = "armed"
        /\ editor.pendingNoteRef # <<>>)
       => LET k == StoredIndex(storage', editor.note.id)
          IN /\ k # 0
             /\ storage'.val[k].title = editor.title
             /\ storage'.val[k].content = editor.content]_vars

\* C4 as stated: when the answer of an AI call is saved, the stored title
\* is the title the editor shows.
C4_TitleSurvivesAI ==
    (lastOp.name = "aiResponse" /\ ~lastOp.zombie /\ lastOp.flag
        /\ editor.mounted) =>
        LET k == StoredIndex(storage, lastOp.id)
        IN k # 0 /\ storage.val[k].title = editor.title

\* C5: what an unmounted editor does with the answer of an AI call (the
\* save, at once or by its debounce timer) leaves every stored note other
\* than the one the call was started on as it was.
C5_OtherNotesUntouched ==
    [][lastOp'.zombie =>
          \A k \in DOMAIN storage.val :
              storage.val[k].id # lastOp'.id =>
                  \E m \in DOMAIN storage'.val :
                      /\ storage'.val[m].id = storage.val[k].id
                      /\ storage'.val[m].title = storage.val[k].title
                      /\ storage'.val[m].content = storage.val[k].content]_vars

\* an unmounted editor has saved its note while the editor of another note
\* is open
C5_Witness ==
    /\ lastOp.zombie
    /\ lastOp.flag
    /\ editor.mounted
    /\ editor.note.id # lastOp.id
    /\ Len(storage.val) = 2

\* C16: when an AI call fails, the store and the collection of App stay as
\* they were; in the editor that made the call, content and title, the
\* debounce timer and the pending note stay as they were too, the loading
\* flag is off and nothing waits to be rendered, so the call can be made
\* again.
C16_FailureChangesNothing ==
    [][lastOp'.name = "aiFailure" =>
          /\ storage' = storage
          /\ notes' = notes
          /\ ~dirty'
          /\ ~lastOp'.zombie =>
                /\ editor'.content = editor.content
                /\ editor'.title = editor.title
                /\ editor'.timerRef = editor.timerRef
                /\ editor'.timerNote = editor.timerNote
                /\ editor'.pendingNoteRef = editor.pendingNoteRef
                /\ ~editor'.aiLoading
                /\ Len(editor'.calls) < Len(editor.calls)]_vars

\* a call failed while the save of a title typed during the call was pending
C16_Witness ==
    /\ lastOp.name = "aiFailure"
    /\ ~lastOp.zombie
    /\ editor.mounted
    /\ editor.title = <<"a">>
    /\ editor.timerRef = "armed"
    /\ ~editor.aiLoading
    /\ editor.calls = <<>>

---------------------------------------------------------------------------
(* storageService.ts on its own: any caller, any order of calls *)

\* what localStorage holds when the module is first used: nothing, or a
\* value that JSON.parse rejects
InitStore ==
    /\ input = <<>>
    /\ matches = <<>>
    /\ lastOp = Op("init")
    /\ storage \in {[st |-> "absent", val |-> <<>>],
                    [st |-> "corrupt", val |-> <<>>]}
    /\ now = 0
    /\ nextId = 1
    /\ notes = <<>>
    /\ activeNoteId = 0
    /\ viewMode = "EDITOR"
    /\ dirty = FALSE
    /\ editor = NoEditor
    /\ zombies = <<>>
    /\ graphMounted = FALSE
    /\ nodes = <<>>
    /\ simulation = NoSimulation
    /\ links = <<>>

StoreUnchanged ==
    UNCHANGED <<input, matches, activeNoteId, viewMode, dirty, editor,
                zombies, graphMounted, nodes, links,
                   simulation>>

\* Date.now() grows between calls
Tick ==
    /\ now < MaxTime
    /\ now' = now + 1
    /\ UNCHANGED <<storage, nextId, notes, lastOp>>
    /\ StoreUnchanged

\* getNotes()
StoreGetNotes ==
    /\ LET g == getNotes(storage, nextId, now)
       IN /\ storage' = g.storage
          /\ nextId' = g.nextId
          /\ notes' = g.ret
    /\ lastOp' = Op("getNotes")
    /\ UNCHANGED now
    /\ StoreUnchanged

StoreTitles == {<<>>, <<"a">>}

\* saveNote(updatedNote): a note of an id handed out before, or a new note
\* with the next id; its updatedAt is a time that has been
StoreSaveNote ==
    /\ \E id \in 1..nextId, title \in StoreTitles, t \in 0..now :
          LET updatedNote == [id |-> id, title |-> title, content |-> <<>>,
                              createdAt |-> 0, updatedAt |-> t]
              u == saveNote(storage,
                            IF id = nextId THEN nextId + 1 ELSE nextId,
                            now, updatedNote)
          IN /\ id <= MaxIds
             /\ storage' = u.storage
             /\ nextId' = u.nextId
             /\ notes' = u.ret
             /\ lastOp' = [OpOn("saveNote", id, TRUE, FALSE)
                           EXCEPT !.arg = updatedNote]
    /\ UNCHANGED now
    /\ StoreUnchanged

\* deleteNote(id), of an id handed out before or of 0, the id of no note
StoreDeleteNote ==
    /\ \E id \in 0..(nextId - 1) :
          LET u == deleteNote(storage, nextId, now, id)
          IN /\ storage' = u.storage
             /\ nextId' = u.nextId
             /\ notes' = u.ret
             /\ lastOp' = OpOn("deleteNote", id, TRUE, FALSE)
    /\ UNCHANGED now
    /\ StoreUnchanged

NextStore ==
    \/ Tick
    \/ StoreGetNotes
    \/ StoreSaveNote
    \/ StoreDeleteNote

SpecStore == InitStore /\ [][NextStore]_vars

Without(ns, id) == SelectSeq(ns, LAMBDA n : n.id # id)

\* C11 as stated: saveNote stores the note it is handed, with updatedAt the
\* time of the write, and returns the stored collection, in which that id
\* occurs once; whether the id was stored before or not.
C11_SaveNote ==
    [][lastOp'.name = "saveNote" =>
          LET hits == {k \in DOMAIN notes' : notes'[k].id = lastOp'.id}
          IN /\ storage' = [st |-> "ok", val |-> notes']
             /\ Cardinality(hits) = 1
             /\ \A k \in hits :
                   /\ notes'[k].title = lastOp'.arg.title
                   /\ notes'[k].content = lastOp'.arg.content
                   /\ notes'[k].updatedAt = now]_vars

\* C12 as stated: the collection a storage call returns is in non-increasing
\* order of updatedAt.
C12_MostRecentFirst ==
    lastOp.name \in {"getNotes", "saveNote", "deleteNote"} =>
        \A k \in 1..(Len(notes) - 1) :
            notes[k].updatedAt >= notes[k + 1].updatedAt

\* C13 as stated: getNotes on a value that does not parse returns the
\* Welcome note alone and writes it to the store.
C13_CorruptReset ==
    [][(lastOp'.name = "getNotes" /\ storage.st = "corrupt") =>
          /\ Len(notes') = 1
          /\ notes'[1].title = WelcomeTitle
          /\ storage' = [st |-> "ok", val |-> notes']]_vars

\* C14 as stated: getNotes on a store that holds no note (never written, or
\* emptied) returns the Welcome note alone and stores it, so that the next
\* getNotes returns the same collection.
C14_Bootstrap ==
    [][(/\ lastOp'.name = "getNotes"
        /\ \/ storage.st = "absent"
           \/ storage.st = "ok" /\ storage.val = <<>>) =>
          /\ Len(notes') = 1
          /\ notes'[1].title = WelcomeTitle
          /\ storage' = [st |-> "ok", val |-> notes']
          /\ getNotes(storage', nextId', now).ret = notes']_vars

\* C15: on a store that holds a collection, saveNote(n) leaves the stored
\* notes of every other id as they were and in their order; deleteNote(id)
\* stores and returns the collection without the notes of that id, which is
\* the collection itself when the id is not stored.
C15_WritesScoped ==
    [][storage.st = "ok" =>
          /\ lastOp'.name = "saveNote" =>
                Without(storage'.val, lastOp'.id)
                    = Without(storage.val, lastOp'.id)
          /\ lastOp'.name = "deleteNote" =>
                /\ notes' = Without(storage.val, lastOp'.id)
                /\ storage' = [st |-> "ok", val |-> notes']
                /\ lastOp'.id \notin NoteIds(storage.val)
                      => notes' = storage.val]_vars

\* one of two stored notes was saved again with a new title
C15_Witness ==
    /\ lastOp.name = "saveNote"
    /\ Len(storage.val) = 2
    /\ storage.val[2].id = lastOp.id
    /\ storage.val[2].title = <<"a">>
    /\ storage.val[2].updatedAt = MaxTime
    /\ storage.val[1].updatedAt = 0

---------------------------------------------------------------------------
(* NoteEditor.tsx: the autocomplete popup, with one editor that stays open *)

\* App as it is once it has loaded ns and rendered the editor e of ns[cur]
EditorOpen(ns, cur, e) ==
    /\ input = <<>>
    /\ matches = <<>>
    /\ lastOp = Op("render")
    /\ storage = Stored(ns)
    /\ now = 0
    /\ nextId = Len(ns) + 1
    /\ notes = ns
    /\ activeNoteId = ns[cur].id
    /\ viewMode = "EDITOR"
    /\ dirty = FALSE
    /\ editor = e
    /\ zombies = <<>>
    /\ graphMounted = FALSE
    /\ nodes = <<>>
    /\ simulation = NoSimulation
    /\ links = <<>>

\* the notes the suggestions come from: "A", an untitled note, and "a", the
\* note in the editor
PopupNotes ==
    <<[id |-> 3, title |-> <<"A">>, content |-> <<>>,
       createdAt |-> 0, updatedAt |-> 0],
      [id |-> 2, title |-> <<>>, content |-> <<>>,
       createdAt |-> 0, updatedAt |-> 0],
      [id |-> 1, title |-> <<"a">>, content |-> <<>>,
       createdAt |-> 0, updatedAt |-> 0]>>

InitPopup == EditorOpen(PopupNotes, 3, mountEditor(PopupNotes[3]))

PopupUnchanged ==
    UNCHANGED <<input, matches, now, activeNoteId, viewMode, zombies,
                graphMounted, nodes, links,
                   simulation>>

\* the characters the trigger is about, and a letter of the titles
PopupChars == {"[", "]", "a", NL}

\* the user types one character at the caret: onChange of the textarea
Type ==
    /\ editor.mounted
    /\ Len(editor.content) < MaxPopupLen
    /\ \E c \in PopupChars :
          LET p == editor.selectionStart
              newVal == slice(editor.content, 0, p) \o <<c>>
                            \o sliceFrom(editor.content, p)
          IN EditorRan(handleContentChange(editor, newVal, p + 1),
                       Op("contentChange"))
    /\ PopupUnchanged

\* the user deletes the character before the caret: onChange of the textarea
Backspace ==
    /\ editor.mounted
    /\ editor.selectionStart > 0
    /\ LET p == editor.selectionStart
           newVal == slice(editor.content, 0, p - 1)
                         \o sliceFrom(editor.content, p)
       IN EditorRan(handleContentChange(editor, newVal, p - 1),
                    Op("contentChange"))
    /\ PopupUnchanged

\* the user moves the caret with the mouse or a caret key: no handler runs
MoveCursor ==
    /\ editor.mounted
    /\ \E p \in 0..Len(editor.content) :
          /\ p # editor.selectionStart
          /\ editor' = [editor EXCEPT !.selectionStart = p]
    /\ lastOp' = Op("moveCursor")
    /\ UNCHANGED <<storage, nextId, notes, dirty>>
    /\ PopupUnchanged

PopupShown ==
    editor.suggestions.isOpen /\ Len(filteredSuggestions(notes, editor)) > 0

\* onKeyDown of the textarea
KeyDown ==
    /\ editor.mounted
    /\ Len(editor.content) <= MaxPopupLen
    /\ \E key \in Keys :
          LET fs == filteredSuggestions(notes, editor)
          IN EditorRan(handleKeyDown(notes, editor, key),
                       IF PopupShown /\ key \in {"Enter", "Tab"}
                       THEN [Op("insertSuggestion")
                               EXCEPT !.arg = fs[editor.selectedIndex + 1]]
                       ELSE Op("keyDown"))
    /\ PopupUnchanged

\* onClick of an entry of the popup
ClickSuggestion ==
    /\ editor.mounted
    /\ Len(editor.content) <= MaxPopupLen
    /\ PopupShown
    /\ \E i \in DOMAIN filteredSuggestions(notes, editor) :
          LET s == filteredSuggestions(notes, editor)[i]
          IN EditorRan(insertSuggestion(editor, s),
                       [Op("insertSuggestion") EXCEPT !.arg = s])
    /\ PopupUnchanged

NextPopup ==
    \/ Type
    \/ Backspace
    \/ MoveCursor
    \/ KeyDown
    \/ ClickSuggestion

SpecPopup == InitPopup /\ [][NextPopup]_vars

\* the body s has "[[" at the 0-based position i
OpenAt(s, i) == s[i + 1] = "[" /\ s[i + 2] = "["

\* the caret c is inside an open trigger of s: the last "[[" that ends at or
\* before c is followed, up to c, by no newline and no "]]"
InsideTrigger(s, c) ==
    \E i \in 0..(c - 2) :
        /\ OpenAt(s, i)
        /\ \A j \in (i + 1)..(c - 2) : ~OpenAt(s, j)
        /\ \A k \in (i + 3)..c : s[k] # NL
        /\ \A k \in (i + 3)..(c - 1) : ~(s[k] = "]" /\ s[k + 1] = "]")

\* C17 as stated: after typing and after moving the caret, the popup is
\* open exactly when the caret is inside an open trigger.
C17_PopupTracksCursor ==
    (editor.mounted /\ lastOp.name \in {"contentChange", "moveCursor"}) =>
        (editor.suggestions.isOpen
            <=> InsideTrigger(editor.content, editor.selectionStart))

\* C19 as stated: inserting a suggestion replaces the span "[[" + filter at
\* the trigger by [[Title]], keeps the text before and after it, closes the
\* popup and leaves the caret right after the token.
C19_InsertSuggestion ==
    [][lastOp'.name = "insertSuggestion" =>
          LET m == editor.suggestions.matchIndex
              f == editor.suggestions.filter
              token == <<"[", "[">> \o lastOp'.arg.title \o <<"]", "]">>
              before == SubSeq(editor.content, 1, m)
              span == SubSeq(editor.content, m + 1, m + 2 + Len(f))
              after == SubSeq(editor.content, m + 3 + Len(f),
                              Len(editor.content))
          IN /\ span = <<"[", "[">> \o f
             /\ editor'.content = before \o token \o after
             /\ ~editor'.suggestions.isOpen
             /\ editor'.selectionStart = m + Len(token)]_vars

---------------------------------------------------------------------------
(* NoteEditor.tsx: the suggestions, taken from collections of any size *)

SuggestFilters == {<<>>, <<"A">>, <<"b">>}

\* n notes titled "a" and "A" in turn, but for the note at odd, titled "b"
SuggestNotes(n, odd) ==
    [k \in 1..n |->
        [id |-> k,
         title |-> IF k = odd THEN <<"b">>
                   ELSE IF k % 2 = 0 THEN <<"A">> ELSE <<"a">>,
         content |-> <<>>, createdAt |-> 0, updatedAt |-> 0]]

\* the editor of one of the notes, after "[[" and a filter were typed
InitSuggest ==
    \E n \in 1..MaxSuggestNotes :
        \E odd \in 0..n, cur \in 1..n, filter \in SuggestFilters :
            LET ns == SuggestNotes(n, odd)
                typed == <<"[", "[">> \o filter
            IN EditorOpen(ns, cur,
                          handleContentChange(mountEditor(ns[cur]), typed,
                                              Len(typed)).editor)

NextSuggest ==
    \/ KeyDown
    \/ ClickSuggestion

SpecSuggest == InitSuggest /\ [][NextSuggest]_vars

\* t contains f as a substring when letter case is ignored
ContainsIgnoringCase(t, f) ==
    \E off \in 0..(Len(t) - Len(f)) :
        \A k \in 1..Len(f) :
            toLowerCaseChar(t[off + k]) = toLowerCaseChar(f[k])

FirstN(q, n) == SubSeq(q, 1, IF Len(q) < n THEN Len(q) ELSE n)

\* C18: while the popup is open, the candidates are the first 10, in the
\* order of the collection, of the notes other than the one in the editor
\* whose title contains the filter when case is ignored; with an empty
\* filter, the first 10 of all other notes.
C18_Candidates ==
    (editor.mounted /\ editor.suggestions.isOpen) =>
        LET others == SelectSeq(notes, LAMBDA n : n.id # editor.note.id)
            hits == SelectSeq(others,
                        LAMBDA n : ContainsIgnoringCase(
                                       n.title, editor.suggestions.filter))
        IN /\ filteredSuggestions(notes, editor) = FirstN(hits, 10)
           /\ editor.suggestions.filter = <<>> =>
                 filteredSuggestions(notes, editor) = FirstN(others, 10)

\* eleven other notes match the filter "A" and ten are offered
C18_Witness ==
    /\ editor.mounted
    /\ editor.suggestions.isOpen
    /\ editor.suggestions.filter = <<"A">>
    /\ Len(notes) = 12
    /\ \A k \in DOMAIN notes : notes[k].title # <<"b">>
    /\ Len(filteredSuggestions(notes, editor)) = 10
    /\ editor.selectedIndex = 9

---------------------------------------------------------------------------
(* NetworkGraph.tsx: the layout, while the parent changes the collection *)

\* the points a tick moves a node to and the pointer drags it to; point i
\* is also the seed of index i
Positions == 0..2

Drawn(ns) == graphEffect(ns, NoGraph)

\* NetworkGraph is shown with up to MaxLayoutNotes stored notes and its
\* effect has run once
InitLayout ==
    /\ input = <<>>
    /\ matches = <<>>
    /\ now = 0
    /\ \E len \in 1..MaxLayoutNotes :
          /\ notes = Collection([k \in 1..len |-> <<<<"a">>, <<>>>>])
          /\ nextId = len + 1
    /\ storage = Stored(notes)
    /\ activeNoteId = 0
    /\ viewMode = "GRAPH"
    /\ dirty = FALSE
    /\ editor = NoEditor
    /\ zombies = <<>>
    /\ graphMounted = TRUE
    /\ nodes = Drawn(notes).nodes
    /\ links = Drawn(notes).links
    /\ simulation = Drawn(notes).simulation
    /\ lastOp = Op("graphEffect")

LayoutUnchanged ==
    UNCHANGED <<input, matches, now, activeNoteId, viewMode, dirty, editor,
                zombies, graphMounted>>

\* one tick of the simulation created last: a pinned node is put at its fx
\* and is at rest, and the forces have moved one free node, which is now in
\* motion
SimulationTick ==
    /\ simulation.running
    /\ \E k \in DOMAIN nodes, p \in Positions :
          /\ nodes' = [m \in DOMAIN nodes |->
                          IF nodes[m].fx # NoPin
                          THEN [nodes[m] EXCEPT !.x = nodes[m].fx, !.vx = 0]
                          ELSE IF m = k
                          THEN [nodes[m] EXCEPT !.x = p, !.vx = 1]
                          ELSE nodes[m]]
          /\ nodes' # nodes
    /\ lastOp' = Op("tick")
    /\ UNCHANGED <<storage, nextId, notes, links, simulation>>
    /\ LayoutUnchanged

\* alpha has decayed below alphaMin (its target is 0 unless a node of this
\* simulation is being dragged): the simulation created last stops
SimulationEnd ==
    /\ simulation.running
    /\ simulation.drag.id = 0 \/ simulation.drag.detached
    /\ simulation' = [simulation EXCEPT !.running = FALSE]
    /\ lastOp' = Op("simulationEnd")
    /\ UNCHANGED <<storage, nextId, notes, nodes, links>>
    /\ LayoutUnchanged

\* drag "start" on a drawn node: the simulation its handler closes over,
\* the one created last, is restarted and the node is pinned where it is
DragStart ==
    /\ graphMounted
    /\ simulation.drag.id = 0
    /\ \E k \in DOMAIN nodes :
          /\ nodes' = [nodes EXCEPT ![k].fx = nodes[k].x]
          /\ simulation' = [simulation EXCEPT
                               !.running = TRUE,
                               !.drag = [id |-> nodes[k].id,
                                         pointer |-> nodes[k].x,
                                         detached |-> FALSE]]
    /\ lastOp' = Op("dragStart")
    /\ UNCHANGED <<storage, nextId, notes, links>>
    /\ LayoutUnchanged

\* the node object of the gesture: d.fx = v
setFx(nds, drag, v) ==
    [m \in DOMAIN nds |->
        IF ~drag.detached /\ nds[m].id = drag.id
        THEN [nds[m] EXCEPT !.fx = v] ELSE nds[m]]

\* "drag": the pointer has moved
Drag ==
    /\ simulation.drag.id # 0
    /\ \E p \in Positions :
          /\ p # simulation.drag.pointer
          /\ nodes' = setFx(nodes, simulation.drag, p)
          /\ simulation' = [simulation EXCEPT !.drag.pointer = p]
    /\ lastOp' = Op("drag")
    /\ UNCHANGED <<storage, nextId, notes, links>>
    /\ LayoutUnchanged

\* "end": the pointer is released
DragEnd ==
    /\ simulation.drag.id # 0
    /\ nodes' = setFx(nodes, simulation.drag, NoPin)
    /\ simulation' = [simulation EXCEPT !.drag = NoDrag]
    /\ lastOp' = Op("dragEnd")
    /\ UNCHANGED <<storage, nextId, notes, links>>
    /\ LayoutUnchanged

\* a simulation created before the last one has cooled down and stops
StaleEnd ==
    /\ simulation.stale > 0
    /\ simulation' = [simulation EXCEPT !.stale = @ - 1]
    /\ lastOp' = Op("staleEnd")
    /\ UNCHANGED <<storage, nextId, notes, nodes, links>>
    /\ LayoutUnchanged

\* the parent toggles the view: NetworkGraph unmounts (its cleanup runs and
\* its svg is gone) or mounts (its effect runs for the first time)
ToggleGraph ==
    /\ LET g == IF graphMounted
                THEN [NoGraph EXCEPT
                        !.simulation = effectCleanup(Graph).simulation,
                        !.simulation.drag =
                            IF simulation.drag.id # 0
                            THEN [simulation.drag EXCEPT !.detached = TRUE]
                            ELSE NoDrag]
                ELSE graphEffect(notes, [NoGraph EXCEPT !.simulation = simulation])
       IN /\ nodes' = g.nodes
          /\ links' = g.links
          /\ simulation' = g.simulation
    /\ graphMounted' = ~graphMounted
    /\ viewMode' = IF graphMounted THEN "EDITOR" ELSE "GRAPH"
    /\ lastOp' = Op("toggleGraph")
    /\ UNCHANGED <<input, matches, storage, now, nextId, notes, activeNoteId,
                   dirty, editor, zombies>>

\* the parent stores r.ret and renders NetworkGraph with it: the notes prop
\* is a new array, so the effect runs again
NotesProp(r, op) ==
    /\ storage' = r.storage
    /\ nextId' = r.nextId
    /\ notes' = r.ret
    /\ LET g == graphEffect(r.ret, effectCleanup(Graph))
       IN /\ nodes' = g.nodes
          /\ links' = g.links
          /\ simulation' = g.simulation
    /\ lastOp' = op
    /\ LayoutUnchanged

\* a note is added to the collection
AddNote ==
    /\ graphMounted
    /\ Len(notes) < MaxLayoutNotes
    /\ nextId <= MaxLayoutNotes + MaxAdds
    /\ LET newNote == [id |-> nextId, title |-> <<>>, content |-> <<>>,
                       createdAt |-> now, updatedAt |-> now]
           r == saveNote(storage, nextId, now, newNote)
       IN NotesProp([r EXCEPT !.nextId = nextId + 1],
                    OpOn("addNote", newNote.id, TRUE, FALSE))

\* a note is removed from the collection
RemoveNote ==
    /\ graphMounted
    /\ \E k \in DOMAIN notes :
          NotesProp(deleteNote(storage, nextId, now, notes[k].id),
                    OpOn("removeNote", notes[k].id, TRUE, FALSE))

LayoutBodies == {<<>>, Link(<<"a">>)}

\* a note of the collection is edited
EditNote ==
    /\ graphMounted
    /\ \E k \in DOMAIN notes, body \in LayoutBodies :
          /\ body # notes[k].content
          /\ NotesProp(saveNote(storage, nextId, now,
                                [notes[k] EXCEPT !.content = body]),
                       OpOn("editNote", notes[k].id, TRUE, FALSE))

NextLayout ==
    \/ SimulationTick
    \/ SimulationEnd
    \/ DragStart
    \/ Drag
    \/ DragEnd
    \/ StaleEnd
    \/ ToggleGraph
    \/ AddNote
    \/ RemoveNote
    \/ EditNote

SpecLayout == InitLayout /\ [][NextLayout]_vars

\* C20 as stated: when the collection changes while the graph is shown,
\* every node present before and after keeps its position and its velocity.
C20_LayoutContinuity ==
    [][lastOp'.name \in {"addNote", "removeNote", "editNote"} =>
          \A k \in DOMAIN nodes, m \in DOMAIN nodes' :
              nodes'[m].id = nodes[k].id =>
                  /\ nodes'[m].x = nodes[k].x
                  /\ nodes'[m].vx = nodes[k].vx]_vars

\* C21 as stated: while the graph is shown and a drag is in progress, the
\* dragged node is pinned at the pointer and no other node is pinned; while
\* no drag is in progress, no node is pinned.
C21_DragPins ==
    graphMounted =>
        IF simulation.drag.id # 0
        THEN \E k \in DOMAIN nodes :
                /\ nodes[k].id = simulation.drag.id
                /\ nodes[k].fx = simulation.drag.pointer
                /\ \A m \in DOMAIN nodes : m # k => nodes[m].fx = NoPin
        ELSE \A k \in DOMAIN nodes : nodes[k].fx = NoPin

\* the simulations whose timer is ticking
Ticking == (IF simulation.running THEN 1 ELSE 0) + simulation.stale

\* C22 as stated: at most one simulation is ticking, and none is ticking
\* after the graph has unmounted or while there are no notes.
C22_OneSimulation ==
    /\ Ticking <= 1
    /\ (~graphMounted \/ notes = <<>>) => Ticking = 0

---------------------------------------------------------------------------
(* NoteEditor.tsx: the debounce, in one editor that stays mounted *)

\* a session of edits, timer expiries and AI calls in the editor of one note
NextDebounce ==
    \/ Load
    \/ Render
    \/ TitleChange
    \/ ContentChange
    \/ TimerFire
    \/ StartAI
    \/ AIResponse

SpecDebounce == InitAI /\ [][NextDebounce]_vars

\* C23: an edit writes nothing and leaves one armed timer, which holds the
\* title and the content as they are after that edit; the expiring timer
\* writes the note it holds and leaves no timer and no pending note; an
\* immediate save leaves no armed timer and no pending note.
C23_Debounce ==
    [][/\ lastOp'.name \in {"titleChange", "contentChange"} =>
             /\ storage' = storage
             /\ editor'.timerRef = "armed"
             /\ editor'.timerNote = withTitle(editor.note, editor'.content,
                                              editor'.title)
             /\ editor'.pendingNoteRef = <<editor'.timerNote>>
       /\ lastOp'.name = "timer" =>
             /\ \E k \in DOMAIN storage'.val :
                   /\ storage'.val[k].id = editor.timerNote.id
                   /\ storage'.val[k].title = editor.timerNote.title
                   /\ storage'.val[k].content = editor.timerNote.content
             /\ editor'.timerRef = "null"
             /\ editor'.pendingNoteRef = <<>>
       /\ (lastOp'.name = "aiResponse" /\ lastOp'.flag) =>
             /\ editor'.timerRef # "armed"
             /\ editor'.pendingNoteRef = <<>>]_vars

\* a title edit and a content edit are pending in one debounce window and
\* nothing of them is stored yet
C23_Witness ==
    /\ editor.mounted
    /\ lastOp.name \in {"titleChange", "contentChange"}
    /\ editor.timerRef = "armed"
    /\ editor.title # editor.note.title
    /\ editor.content # editor.note.content
    /\ \E k \in DOMAIN storage.val : storage.val[k] = editor.note

---------------------------------------------------------------------------
(* App.tsx: a session with AI calls, deletes and the sidebar search *)

\* Sidebar onSearchChange={setSearchTerm}: App renders again
SearchChange ==
    /\ Ready
    /\ dirty' = TRUE
    /\ lastOp' = Op("search")
    /\ UNCHANGED <<input, matches, storage, now, nextId, notes, activeNoteId,
                   viewMode, editor, zombies, graphMounted, nodes, links,
                   simulation>>

NextSession ==
    \/ Load
    \/ Render
    \/ SelectNote
    \/ TitleChangeAI
    \/ TimerFire
    \/ StartAI
    \/ AIResponse
    \/ ZombieResponse
    \/ ZombieTimerFire
    \/ Delete
    \/ SearchChange

SpecSession == InitAI /\ [][NextSession]_vars

\* C24 as stated: no note is created in these sessions, so a record that a
\* step adds to the store is one that a confirmed delete had removed; no
\* step adds a record to the store.
C24_NoReappearance ==
    [][(storage.st = "ok" /\ storage'.st = "ok") =>
          NoteIds(storage'.val) \subseteq NoteIds(storage.val)]_vars

\* C28 as stated: activeNoteId is null only if the collection is empty, and
\* otherwise it is the id of a note of the collection.
C28_ActiveNoteValid ==
    IF activeNoteId = 0 THEN notes = <<>>
    ELSE activeNoteId \in NoteIds(notes)

\* C26 as stated, for the renders: a pending edit is flushed at most once;
\* the render that follows a render which wrote to the store writes nothing.
C26_FlushedOnce ==
    [][(lastOp.name = "render" /\ lastOp.flag /\ lastOp'.name = "render") =>
          ~lastOp'.flag]_vars

\* C25 as stated: a delete whose confirmation is declined changes neither
\* the store nor the pending edit of the editor, its timer included.
C25_CancelIsNoOp ==
    [][(lastOp'.name = "delete" /\ ~lastOp'.flag) =>
          /\ storage' = storage
          /\ editor'.timerRef = editor.timerRef
          /\ editor'.timerNote = editor.timerNote
          /\ editor'.pendingNoteRef = editor.pendingNoteRef]_vars

\* C29 as stated: the mounted editor shows "saving" only while its debounce
\* timer is armed and a note state is pending.
C29_SavingTracksPending ==
    (editor.mounted /\ editor.isSaving) =>
        (editor.timerRef = "armed" /\ editor.pendingNoteRef # <<>>)

\* C27 as stated: for every link title in a note of the collection, the
\* note that handleWikiLink makes active is the note the graph build takes
\* as the edge target of that title.
C27_SameResolution ==
    \A k \in DOMAIN notes :
        \A j \in DOMAIN extractLinks(notes[k].content) :
            LET title == extractLinks(notes[k].content)[j]
                targetNote == targetNoteOf(notes, title)
            IN (title # <<>> /\ targetNote # NoNote) =>
                  MapGet(titleToId(notes), toLowerCase(title)) = targetNote.id

---------------------------------------------------------------------------
(* NoteEditor.tsx: AI calls of one editor that overlap *)

NextLoading ==
    \/ Load
    \/ Render
    \/ TitleChangeAI
    \/ TimerFire
    \/ StartCalls
    \/ AIResponse

SpecLoading == InitAI /\ [][NextLoading]_vars

\* C30 as stated: the mounted editor shows "AI processing" exactly while
\* one of its calls has not completed.
C30_LoadingCoversCalls ==
    editor.mounted => (editor.aiLoading <=> editor.calls # <<>>)

===========================================================================
